---------------------------- MODULE Spec2Model ----------------------------
(***************************************************************************)
(* A model of src/index.js: the Entity-Component-System world, its systems,*)
(* the assemblage factories and the fixed-timestep game loop.              *)
(*                                                                         *)
(* Representation.                                                         *)
(*  - An entity is a record.  `id` is the identity of the JavaScript       *)
(*    object (=== is id equality), `comps` the set of component classes    *)
(*    the entity carries (getComponent(C) finds one iff C \in comps), and  *)
(*    the remaining fields are the data of those components.  A slot that  *)
(*    holds null is the record Null (id 0).                                *)
(*  - Coordinates are integers (pixels).                                   *)
(*  - Frame timestamps and accumulatedTime are counted in thirds of a      *)
(*    millisecond, so that the step 1000/60 ms is the integer 50;          *)
(*    Date.now() is in whole milliseconds.                                 *)
(*  - mainLoopId is taken to be a binding that resolves (it is declared    *)
(*    outside src/index.js); the model keeps only whether a frame          *)
(*    callback is pending.                                                 *)
(***************************************************************************)
EXTENDS Integers, Sequences, FiniteSets, TLC

VARIABLES
    entities,         \* World.entities: the slot sequence
    systems,          \* World.systems: names of the registered systems
    keys,             \* the input-state map  key -> token
    clock,            \* real time since page load, in thirds of a ms
    nextId,           \* identity given to the next object created
    lastRender,       \* loop: let lastRender
    accumulatedTime,  \* loop: let accumulatedTime
    lost,             \* loop: let lost
    scheduled,        \* a frame callback is pending (requestAnimationFrame)
    pc,               \* position inside the frame callback
    thrown,           \* an exception escaped the running callback
    calls,            \* history: the calls made by the last step, in order
    prev,             \* history: the slot sequence before the last step
    sinceReset,       \* history: real time since the last world.reset
    frames,           \* history: number of frame callbacks entered
    spawnHist,        \* history: the eligible SpawnSystem calls of a harness
    shots             \* history: the bullets fired in the fire harness

vars == << entities, systems, keys, clock, nextId, lastRender, accumulatedTime,
           lost, scheduled, pc, thrown, calls, prev, sinceReset, frames,
           spawnHist, shots >>

---------------------------------------------------------------------------
(* Bounds of the model and the environment's parameters. *)

\* window.innerHeight (the canvas is sized from it)
InnerHeight == 164
\* Date.now() at page load, in ms
EpochMs == 1000
\* largest coordinate / size drawn for the entities of the system harnesses
MaxCoord == 2
\* largest number of slots a harness world holds
MaxSlots == 2
\* number of slots of a collision harness world
CollisionSlots == 3
\* number of frame callbacks explored by the long-horizon loop specification
MaxFrames == 3
\* real time (ms) explored by the game specification
MaxGameMs == 1500
\* eligible spawn calls explored by the spawn harness
MaxCount == 21
\* number of slots of an end-game harness world
EndGameSlots == 3
\* real time (ms) explored by the fire harness
MaxFireMs == 300
\* real time (ms) explored by the steering specification
MaxSteerMs == 300

CanvasHeight == InnerHeight - 100
CanvasWidth == (CanvasHeight * 9) \div 16

\* 1000 / 60 ms and 30000 ms, in thirds of a millisecond
TickStep == (1000 * 3) \div 60
ResetAfter == 30000 * 3
\* variant: the accumulator starts at the threshold, which does not reset
InitialAtThreshold == ResetAfter
InitialAccumulated == 30001 * 3

DateNow == EpochMs + (clock \div 3)

---------------------------------------------------------------------------
(* Entities and components. *)

Blank == [ id |-> 0, comps |-> {},
           x |-> 0, y |-> 0, vx |-> 0, vy |-> 0, w |-> 0, h |-> 0,
           bx |-> 0, by |-> 0, bw |-> 0, bh |-> 0,
           wl |-> {}, lastFired |-> 0, lastSpawn |-> 0, count |-> 0 ]

Null == Blank

IsNull(e) == e.id = 0

Has(e, c) == c \in e.comps

ShipAssemblage(id) ==
    [ Blank EXCEPT !.id = id,
        !.comps = {"Position", "Velocity", "Renderable", "Rectangle",
                   "Blaster", "Whitelist"},
        !.w = 32, !.h = 16 ]

PlayerShipAssemblage(id) ==
    [ ShipAssemblage(id) EXCEPT
        !.x = (CanvasWidth \div 2) - (32 \div 2),
        !.y = CanvasHeight - 32,
        !.comps = @ \cup {"Interactable", "Boundary", "UserCharacter"},
        !.bw = CanvasWidth, !.bh = CanvasHeight ]

BulletAssemblage(id) ==
    [ Blank EXCEPT !.id = id,
        !.comps = {"Position", "Velocity", "Renderable", "Rectangle",
                   "Boundary", "RemovableAtBoundary", "Whitelist"},
        !.w = 4, !.h = 8,
        !.bw = CanvasWidth, !.bh = CanvasHeight ]

EnemyShipAssemblage(id, x0, y0, drift) ==
    [ ShipAssemblage(id) EXCEPT
        !.x = x0, !.y = y0, !.vy = 1, !.vx = drift,
        !.comps = @ \cup {"Boundary", "RemovableAtBoundary"},
        !.bx = -100, !.by = -100,
        !.bw = CanvasWidth + 200, !.bh = CanvasHeight + 200 ]

EnemySpawnerAssemblage(id) ==
    [ Blank EXCEPT !.id = id, !.comps = {"Spawn", "Counter"} ]

---------------------------------------------------------------------------
(* World. *)

RECURSIVE FirstNull(_, _)
\* index of the first null slot at or after i, or 0
FirstNull(s, i) ==
    IF i > Len(s) THEN 0
    ELSE IF IsNull(s[i]) THEN i
    ELSE FirstNull(s, i + 1)

\* variant: the entity is always appended
addEntityAtEnd(s, e) == Append(s, e)

addEntity(s, e) ==
    IF FirstNull(s, 1) # 0
    THEN [s EXCEPT ![FirstNull(s, 1)] = e]
    ELSE Append(s, e)


---------------------------------------------------------------------------
(* MovementSystem. *)

\* variant: the horizontal velocity is added to both coordinates
MoveEntityByVx(e) ==
    IF IsNull(e) \/ ~Has(e, "Position") \/ ~Has(e, "Velocity")
    THEN e
    ELSE [e EXCEPT !.x = @ + e.vx, !.y = @ + e.vx]

MoveEntity(e) ==
    IF IsNull(e) \/ ~Has(e, "Position") \/ ~Has(e, "Velocity")
    THEN e
    ELSE [e EXCEPT !.x = @ + e.vx, !.y = @ + e.vy]

MovementSystem(s) == [i \in 1..Len(s) |-> MoveEntity(s[i])]

---------------------------------------------------------------------------
(* BoundarySystem: four checks in sequence, each on the result of the last. *)

\* variant: the left clamp moves the entity to the boundary's left edge
ClampLeftToBoundary(e) ==
    IF e.x < e.bx THEN [e EXCEPT !.x = e.bx, !.vx = 0] ELSE e

ClampLeft(e) ==
    IF e.x < e.bx THEN [e EXCEPT !.x = 0, !.vx = 0] ELSE e

ClampTop(e) ==
    IF e.y < e.by THEN [e EXCEPT !.y = 0, !.vy = 0] ELSE e

ClampRight(e) ==
    IF e.x + e.w > e.bx + e.bw
    THEN [e EXCEPT !.x = e.bx + e.bw - e.w, !.vx = 0]
    ELSE e

ClampBottom(e) ==
    IF e.y + e.h > e.by + e.bh
    THEN [e EXCEPT !.y = e.by + e.bh - e.h, !.vy = 0]
    ELSE e

ClampEntity(e) ==
    IF IsNull(e) \/ ~Has(e, "Position") \/ ~Has(e, "Rectangle")
       \/ ~Has(e, "Boundary") \/ ~Has(e, "Velocity")
    THEN e
    ELSE ClampBottom(ClampRight(ClampTop(ClampLeft(e))))

BoundarySystem(s) == [i \in 1..Len(s) |-> ClampEntity(s[i])]

---------------------------------------------------------------------------
(* CollisionSystem: two nested forEach over the same array.  forEach reads *)
(* each element when it visits it, so a slot nulled earlier in the pass is *)
(* seen as null; the subject of the outer callback is a local variable,    *)
(* read once when the outer callback starts.                               *)

\* variant: rectangles that share only an edge count as overlapping
OverlapsOrTouches(a, b) ==
    /\ a.x <= b.x + b.w
    /\ a.x + a.w >= b.x
    /\ a.y <= b.y + b.h
    /\ a.y + a.h >= b.y

Overlaps(a, b) ==
    /\ a.x < b.x + b.w
    /\ a.x + a.w > b.x
    /\ a.y < b.y + b.h
    /\ a.y + a.h > b.y

\* variant: only the subject's own whitelist is consulted
ExemptBySubjectOnly(entity, other) ==
    Has(entity, "Whitelist") /\ other.id \in entity.wl

Exempt(entity, other) ==
    \/ Has(entity, "Whitelist") /\ other.id \in entity.wl
    \/ Has(other, "Whitelist") /\ entity.id \in other.wl

\* variant: the inner callback gives up once the subject's slot is null
CollideAtLiveSubject(s, j, entity, i) ==
    IF \/ IsNull(s[j])
       \/ IsNull(s[i])
       \/ s[i].id = entity.id
       \/ Exempt(entity, s[i])
       \/ ~Has(s[i], "Position") \/ ~Has(s[i], "Rectangle")
    THEN s
    ELSE IF Overlaps(entity, s[i])
         THEN [s EXCEPT ![i] = Null, ![j] = Null]
         ELSE s

\* variant: only the other entity's slot is tombstoned
CollideAtOtherOnly(s, j, entity, i) ==
    IF \/ IsNull(s[i])
       \/ s[i].id = entity.id
       \/ Exempt(entity, s[i])
       \/ ~Has(s[i], "Position") \/ ~Has(s[i], "Rectangle")
    THEN s
    ELSE IF Overlaps(entity, s[i])
         THEN [s EXCEPT ![i] = Null]
         ELSE s

\* the inner callback, for subject `entity` of slot j and the other slot i
CollideAt(s, j, entity, i) ==
    IF \/ IsNull(s[i])
       \/ s[i].id = entity.id
       \/ Exempt(entity, s[i])
       \/ ~Has(s[i], "Position") \/ ~Has(s[i], "Rectangle")
    THEN s
    ELSE IF Overlaps(entity, s[i])
         THEN [s EXCEPT ![i] = Null, ![j] = Null]
         ELSE s

RECURSIVE CollideInner(_, _, _, _)
CollideInner(s, j, entity, i) ==
    IF i > Len(s) THEN s
    ELSE CollideInner(CollideAt(s, j, entity, i), j, entity, i + 1)

\* the outer callback for slot j
CollideSubject(s, j) ==
    IF IsNull(s[j]) \/ ~Has(s[j], "Position") \/ ~Has(s[j], "Rectangle")
    THEN s
    ELSE CollideInner(s, j, s[j], 1)

RECURSIVE CollideOuter(_, _)
CollideOuter(s, j) ==
    IF j > Len(s) THEN s
    ELSE CollideOuter(CollideSubject(s, j), j + 1)

CollisionSystem(s) == CollideOuter(s, 1)

---------------------------------------------------------------------------
(* BoundaryRemovalSystem.  The guard tests position and removable only;    *)
(* boundary.y and rectangle.height are then read, which raises a TypeError *)
(* when the entity has no Boundary, or when a comparison that needs the    *)
(* Rectangle is reached without one.  A pass returns the slots and whether *)
(* it threw; a throw ends the pass at that slot.                           *)

\* the removal test short-circuits: the Rectangle is read by the 2nd test
RemovalThrows(e) ==
    \/ ~Has(e, "Boundary")
    \/ ~Has(e, "Rectangle") /\ ~(e.y < e.by)

\* variant: removal only once the rectangle has left the boundary entirely
EntirelyOutside(e) ==
    \/ e.y + e.h <= e.by
    \/ e.y >= e.by + e.bh
    \/ e.x + e.w <= e.bx
    \/ e.x >= e.bx + e.bw

OutsideBoundary(e) ==
    \/ e.y < e.by
    \/ e.y + e.h > e.by + e.bh
    \/ e.x < e.bx
    \/ e.x + e.w > e.bx + e.bw

RECURSIVE RemoveFrom(_, _)
RemoveFrom(s, i) ==
    IF i > Len(s) THEN [entities |-> s, thrown |-> FALSE]
    ELSE IF IsNull(s[i]) \/ ~Has(s[i], "Position")
            \/ ~Has(s[i], "RemovableAtBoundary")
         THEN RemoveFrom(s, i + 1)
    ELSE IF RemovalThrows(s[i]) THEN [entities |-> s, thrown |-> TRUE]
    ELSE IF OutsideBoundary(s[i])
         THEN RemoveFrom([s EXCEPT ![i] = Null], i + 1)
    ELSE RemoveFrom(s, i + 1)

BoundaryRemovalSystem(s) == RemoveFrom(s, 1)

---------------------------------------------------------------------------
(* InteractableSystem and the player ship's behaviour (shipInteractable).  *)
(* Only PlayerShipAssemblage attaches an Interactable, and its closure     *)
(* refers to the ship it is attached to, so the behaviour of the entity in *)
(* slot i acts on that entity.  A player ship always carries Velocity,     *)
(* Blaster, Whitelist, Position and Rectangle (no component is ever        *)
(* removed), so the behaviour's missing-component exits are not reachable. *)

UpKeys == {"ArrowUp", "k", "w"}
DownKeys == {"ArrowDown", "j", "s"}
LeftKeys == {"ArrowLeft", "h", "a"}
RightKeys == {"ArrowRight", "l", "d"}
FireKey == " "
AllKeys == UpKeys \cup DownKeys \cup LeftKeys \cup RightKeys \cup {FireKey}

AnyKey(km, ks, token) == \E k \in ks : km[k] = token

\* the velocity the behaviour leaves on the ship
Steer(ship, km) ==
    LET y1 == IF AnyKey(km, UpKeys \cup DownKeys, "mouseup") THEN 0 ELSE ship.vy
        x1 == IF AnyKey(km, LeftKeys \cup RightKeys, "mouseup") THEN 0 ELSE ship.vx
        y2 == IF AnyKey(km, UpKeys, "mousedown") THEN -4 ELSE y1
        y3 == IF AnyKey(km, DownKeys, "mousedown") THEN 4 ELSE y2
        x2 == IF AnyKey(km, LeftKeys, "mousedown") THEN -4 ELSE x1
        x3 == IF AnyKey(km, RightKeys, "mousedown") THEN 4 ELSE x2
    IN [ship EXCEPT !.vx = x3, !.vy = y3]

\* variant: the blaster has no cooldown
FiresWithoutCooldown(ship, km, now) == km[FireKey] = "mousedown"

\* the shot is taken: the fire key is held and the cooldown does not block
Fires(ship, km, now) ==
    /\ km[FireKey] = "mousedown"
    /\ ~(ship.lastFired # 0 /\ now - ship.lastFired < 100)

\* variant: the ship is not put on the bullet's whitelist
FiredBulletUnlisted(ship, id) ==
    [ BulletAssemblage(id) EXCEPT
        !.bw = CanvasWidth, !.bh = CanvasHeight,
        !.x = ship.x + (ship.w \div 2) - (4 \div 2),
        !.y = ship.y,
        !.vy = -8 ]

FiredBullet(ship, id) ==
    [ BulletAssemblage(id) EXCEPT
        !.wl = {ship.id},
        !.bw = CanvasWidth, !.bh = CanvasHeight,
        !.x = ship.x + (ship.w \div 2) - (4 \div 2),
        !.y = ship.y,
        !.vy = -8 ]

\* st = [entities, nextId]; the behaviour of the ship in slot i
shipInteractable(st, i, km, now) ==
    LET ship == Steer(st.entities[i], km)
        steered == [st.entities EXCEPT ![i] = ship]
    IN  IF Fires(ship, km, now)
        THEN [ entities |->
                 addEntity([steered EXCEPT ![i] =
                               [ship EXCEPT !.lastFired = now,
                                            !.wl = @ \cup {st.nextId}]],
                           FiredBullet(ship, st.nextId)),
               nextId |-> st.nextId + 1 ]
        ELSE [ entities |-> steered, nextId |-> st.nextId ]

\* forEach visits the indices below the length the array had at the start
RECURSIVE InteractFrom(_, _, _, _, _)
InteractFrom(st, i, n, km, now) ==
    IF i > n THEN st
    ELSE IF IsNull(st.entities[i]) \/ ~Has(st.entities[i], "Interactable")
         THEN InteractFrom(st, i + 1, n, km, now)
    ELSE InteractFrom(shipInteractable(st, i, km, now), i + 1, n, km, now)

InteractableSystem(st, km, now) ==
    InteractFrom(st, 1, Len(st.entities), km, now)

---------------------------------------------------------------------------
(* SpawnSystem. *)

RECURSIVE FindSpawner(_, _)
\* entities.find(e => e?.getComponent(SpawnComponent)): its index, or 0
FindSpawner(s, i) ==
    IF i > Len(s) THEN 0
    ELSE IF ~IsNull(s[i]) /\ Has(s[i], "Spawn") THEN i
    ELSE FindSpawner(s, i + 1)

\* variant: the cooldown is not enforced
SpawnEligibleAnyTime(s, now) ==
    /\ FindSpawner(s, 1) # 0
    /\ Has(s[FindSpawner(s, 1)], "Counter")

\* the call passes the spawner, component and cooldown tests
SpawnEligible(s, now) ==
    /\ FindSpawner(s, 1) # 0
    /\ Has(s[FindSpawner(s, 1)], "Counter")
    /\ ~(now - s[FindSpawner(s, 1)].lastSpawn < 100)

\* variant: the enemy is written over slot 0
InsertEnemyOverFirst(s, enemy) ==
    IF Len(s) = 0 THEN Append(s, enemy) ELSE [s EXCEPT ![1] = enemy]

\* the enemy insertion written out in SpawnSystem.update
InsertEnemy(s, enemy) ==
    IF FirstNull(s, 1) # 0
    THEN [s EXCEPT ![FirstNull(s, 1)] = enemy]
    ELSE Append(s, enemy)

\* st = [entities, nextId]; rx and drift are the Math.random() draws
SpawnSystem(st, now, rx, drift) ==
    IF ~SpawnEligible(st.entities, now) THEN st
    ELSE LET k == FindSpawner(st.entities, 1)
             counted == [st.entities EXCEPT ![k].lastSpawn = now,
                                            ![k].count = @ + 1]
         IN  IF counted[k].count % 10 = 0
             THEN [ entities |->
                      InsertEnemy(counted,
                                  EnemyShipAssemblage(st.nextId, rx, 0, drift)),
                    nextId |-> st.nextId + 1 ]
             ELSE [ entities |-> counted, nextId |-> st.nextId ]

---------------------------------------------------------------------------
(* EndGameSystem. *)

\* variant: only slot 0 is inspected
EndGameByFirstSlot(s) ==
    Len(s) = 0 \/ IsNull(s[1]) \/ ~Has(s[1], "UserCharacter")

EndGameSystem(s) ==
    ~ \E i \in 1..Len(s) : ~IsNull(s[i]) /\ Has(s[i], "UserCharacter")

---------------------------------------------------------------------------
(* Harness specifications: one system pass applied to worlds drawn from    *)
(* bounded sets.  The loop's variables stay as they are at page load.      *)

NoKeys == [k \in AllKeys |-> "none"]

LoopAtRest ==
    /\ systems = << >>
    /\ keys = NoKeys
    /\ clock = 0
    /\ lastRender = 0
    /\ accumulatedTime = InitialAccumulated
    /\ lost = FALSE
    /\ scheduled = FALSE
    /\ pc = "idle"
    /\ thrown = FALSE
    /\ calls = << >>
    /\ sinceReset = 0
    /\ frames = 0
    /\ spawnHist = [eligible |-> 0, at |-> -1, hit |-> FALSE]
    /\ shots = [n |-> 0, at |-> -1, last |-> -1, fired |-> FALSE]

LoopUntouched ==
    UNCHANGED << systems, keys, clock, lastRender, accumulatedTime, lost,
                 scheduled, pc, sinceReset, frames >>

(* Collision harness: CollisionSlots slots; each is null, or an entity on  *)
(* a small grid that may lack Position or Rectangle; entities in odd slots *)
(* are 2 wide and those in even slots 1 wide, all are 1 high; at most one  *)
(* entity lists one other entity in its whitelist.                         *)

CollisionShapes ==
    [kind : {"full"}, x : 0..MaxCoord, y : {0, 1}]
    \cup [kind : {"null", "nopos", "norect"}, x : {0}, y : {0}]

WhitelistPairs ==
    {<<0, 0>>} \cup
    {p \in (1..CollisionSlots) \X (1..CollisionSlots) : p[1] # p[2]}

CollisionEntity(i, shape, pair) ==
    IF shape.kind = "null" THEN Null
    ELSE [ Blank EXCEPT
             !.id = i,
             !.comps = (CASE shape.kind = "full" -> {"Position", "Rectangle"}
                          [] shape.kind = "nopos" -> {"Rectangle"}
                          [] shape.kind = "norect" -> {"Position"})
                       \cup (IF pair[1] = i THEN {"Whitelist"} ELSE {}),
             !.x = shape.x, !.y = shape.y, !.w = 1 + (i % 2), !.h = 1,
             !.wl = IF pair[1] = i THEN {pair[2]} ELSE {} ]

InitCollision ==
    /\ \E pair \in WhitelistPairs :
       \E f \in [1..CollisionSlots -> CollisionShapes] :
          entities = [i \in 1..CollisionSlots |-> CollisionEntity(i, f[i], pair)]
    /\ prev = << >>
    /\ nextId = CollisionSlots + 1
    /\ LoopAtRest

CollisionPass ==
    /\ calls = << >>
    /\ entities' = CollisionSystem(entities)
    /\ prev' = entities
    /\ calls' = << "CollisionSystem" >>
    /\ UNCHANGED << nextId, thrown, spawnHist, shots >>
    /\ LoopUntouched

NextCollision == CollisionPass

SpecCollision == InitCollision /\ [][NextCollision]_vars

---------------------------------------------------------------------------
(* Boundary harness: MaxSlots slots.  One slot holds an entity whose       *)
(* geometry, boundary and velocity range over a grid and which carries all *)
(* of Position, Velocity, Rectangle, Boundary and RemovableAtBoundary or   *)
(* lacks one of them; the other slots hold bystanders.  MovementSystem,    *)
(* BoundarySystem (once or twice in succession) and BoundaryRemovalSystem  *)
(* are applied to it.                                                      *)

MovingComps ==
    {"Position", "Velocity", "Rectangle", "Boundary", "RemovableAtBoundary"}

BoundaryShapes ==
    [ lacks : MovingComps \cup {"nothing"},
      x : -1..MaxCoord, w : {1, 2}, bx : {-1, 0, MaxCoord}, bw : {1, 2},
      vx : {-1, 1}, y : {-1, 0, 1}, by : {0, 1} ]

BoundaryEntity(i, shape) ==
    [ Blank EXCEPT
        !.id = i, !.comps = MovingComps \ {shape.lacks},
        !.x = shape.x, !.y = shape.y, !.w = shape.w, !.h = 1,
        !.vx = shape.vx, !.vy = 1,
        !.bx = shape.bx, !.by = shape.by, !.bw = shape.bw, !.bh = 1 ]

Bystander(i, kind) ==
    CASE kind = "null" -> Null
      [] kind = "rock" ->
           [Blank EXCEPT !.id = i, !.comps = {"Position", "Rectangle"},
                         !.w = 1, !.h = 1]
      [] kind = "stray" ->
           [Blank EXCEPT !.id = i,
                         !.comps = {"Position", "RemovableAtBoundary"}]

InitBoundary ==
    /\ \E p \in 1..MaxSlots :
       \E shape \in BoundaryShapes :
       \E others \in [1..MaxSlots -> {"null", "rock", "stray"}] :
          entities = [i \in 1..MaxSlots |->
                        IF i = p THEN BoundaryEntity(i, shape)
                        ELSE Bystander(i, others[i])]
    /\ prev = << >>
    /\ nextId = MaxSlots + 1
    /\ LoopAtRest

MovementPass ==
    /\ calls = << >>
    /\ entities' = MovementSystem(entities)
    /\ prev' = entities
    /\ calls' = << "MovementSystem" >>
    /\ UNCHANGED << nextId, thrown, spawnHist, shots >>
    /\ LoopUntouched

BoundaryPass ==
    /\ calls \in {<< >>, << "BoundarySystem" >>}
    /\ entities' = BoundarySystem(entities)
    /\ prev' = entities
    /\ calls' = Append(calls, "BoundarySystem")
    /\ UNCHANGED << nextId, thrown, spawnHist, shots >>
    /\ LoopUntouched

BoundaryRemovalPass ==
    /\ calls = << >>
    /\ entities' = BoundaryRemovalSystem(entities).entities
    /\ thrown' = BoundaryRemovalSystem(entities).thrown
    /\ prev' = entities
    /\ calls' = << "BoundaryRemovalSystem" >>
    /\ UNCHANGED << nextId, spawnHist, shots >>
    /\ LoopUntouched

NextBoundary == MovementPass \/ BoundaryPass \/ BoundaryRemovalPass

SpecBoundary == InitBoundary /\ [][NextBoundary]_vars

---------------------------------------------------------------------------
(* Spawn harness: a world of MaxSlots slots holding a fresh spawner and    *)
(* tombstones or rocks.  SpawnSystem is called as the wall clock advances  *)
(* by 50 or 100 ms; world.addEntity adds bullets and CollisionSystem       *)
(* passes tombstone what collides, so that insertions meet worlds with and *)
(* without tombstones.  spawnHist counts the eligible calls by the clock   *)
(* alone: a call is eligible when no earlier call was, or when at least    *)
(* 100 ms have passed since the last eligible one.                         *)

\* the Math.random() * canvas.width draws explored
EnemyXs == {0, CanvasWidth - 1}

InitSpawn ==
    /\ \E p \in 1..MaxSlots :
       \E others \in [1..MaxSlots -> {"null", "rock"}] :
          entities = [i \in 1..MaxSlots |->
                        IF i = p THEN EnemySpawnerAssemblage(i)
                        ELSE Bystander(i, others[i])]
    /\ prev = << >>
    /\ nextId = MaxSlots + 1
    /\ LoopAtRest

SpawnUntouched ==
    UNCHANGED << systems, keys, lastRender, accumulatedTime, lost,
                 scheduled, pc, thrown, sinceReset, frames >>

CallEligibleByClock ==
    spawnHist.at = -1 \/ DateNow - spawnHist.at >= 100

SpawnCall ==
    /\ spawnHist.eligible < MaxCount
    /\ \E rx \in EnemyXs :
         LET r == SpawnSystem([entities |-> entities, nextId |-> nextId],
                              DateNow, rx, 0)
         IN  /\ entities' = r.entities
             /\ nextId' = r.nextId
    /\ spawnHist' = IF CallEligibleByClock
                    THEN [eligible |-> spawnHist.eligible + 1, at |-> DateNow,
                          hit |-> TRUE]
                    ELSE [spawnHist EXCEPT !.hit = FALSE]
    /\ prev' = entities
    /\ calls' = << "SpawnSystem" >>
    /\ UNCHANGED << clock, shots >>
    /\ SpawnUntouched

\* the wall clock advances, by 50 ms, until a call would be eligible again;
\* a step of 100 ms is explored as well after the first eligible calls
Wait ==
    /\ spawnHist.at # -1
    /\ DateNow - spawnHist.at < 100
    /\ \E ms \in {50} \cup (IF spawnHist.eligible <= 2 THEN {100} ELSE {}) :
          clock' = clock + 3 * ms
    /\ calls' = << "wait" >>
    /\ UNCHANGED << entities, nextId, prev, spawnHist, shots >>
    /\ SpawnUntouched

AddBullet ==
    /\ nextId <= 2 * MaxSlots
    /\ entities' = addEntity(entities, BulletAssemblage(nextId))
    /\ nextId' = nextId + 1
    /\ prev' = entities
    /\ calls' = << "addEntity" >>
    /\ UNCHANGED << clock, spawnHist, shots >>
    /\ SpawnUntouched

CollisionBetweenSpawns ==
    /\ entities' = CollisionSystem(entities)
    /\ prev' = entities
    /\ calls' = << "CollisionSystem" >>
    /\ UNCHANGED << clock, nextId, spawnHist, shots >>
    /\ SpawnUntouched

NextSpawn == SpawnCall \/ Wait \/ AddBullet \/ CollisionBetweenSpawns

SpecSpawn == InitSpawn /\ [][NextSpawn]_vars

---------------------------------------------------------------------------
(* World.update, World.reset with the game's init, and the frame callback  *)
(* loop(timestamp).  The callback is modelled in steps: FrameEnter (from   *)
(* its first line to the while loop), CatchUpTick (one iteration of the    *)
(* while loop) and Render (from the loop's exit to the return).  Real time *)
(* passes between callbacks only.                                          *)

SystemNames ==
    << "BoundarySystem", "MovementSystem", "CollisionSystem",
       "BoundaryRemovalSystem", "InteractableSystem", "EntitiesCounterSystem",
       "SpawnSystem" >>

\* the Math.random() * 0.5 drift draws explored (pixels are integers here)
Drifts == {0}

\* st = [entities, nextId, thrown, ran]: one system's update
ApplySystem(name, st, km, now, rx, drift) ==
    LET world == [entities |-> st.entities, nextId |-> st.nextId]
        ran == Append(st.ran, name)
        removal == BoundaryRemovalSystem(st.entities)
        interact == InteractableSystem(world, km, now)
        spawn == SpawnSystem(world, now, rx, drift)
    IN  CASE name = "BoundarySystem" ->
               [st EXCEPT !.entities = BoundarySystem(@), !.ran = ran]
          [] name = "MovementSystem" ->
               [st EXCEPT !.entities = MovementSystem(@), !.ran = ran]
          [] name = "CollisionSystem" ->
               [st EXCEPT !.entities = CollisionSystem(@), !.ran = ran]
          [] name = "BoundaryRemovalSystem" ->
               [st EXCEPT !.entities = removal.entities,
                          !.thrown = removal.thrown,
                          !.ran = ran]
          [] name = "InteractableSystem" ->
               [st EXCEPT !.entities = interact.entities,
                          !.nextId = interact.nextId,
                          !.ran = ran]
          [] name = "EntitiesCounterSystem" ->
               [st EXCEPT !.ran = ran]
          [] name = "SpawnSystem" ->
               [st EXCEPT !.entities = spawn.entities,
                          !.nextId = spawn.nextId,
                          !.ran = ran]

RECURSIVE RunSystems(_, _, _, _, _, _, _)
\* systems.forEach: an exception ends it
RunSystems(sys, k, st, km, now, rx, drift) ==
    IF k > Len(sys) \/ st.thrown THEN st
    ELSE LET next == ApplySystem(sys[k], st, km, now, rx, drift)
         IN  RunSystems(sys, k + 1, next, km, now, rx, drift)

RECURSIVE StagesFrom(_, _, _, _, _, _, _)
\* the slot sequences a tick goes through: before the first system and
\* after each system, in order
StagesFrom(sys, k, st, km, now, rx, drift) ==
    IF k > Len(sys) THEN << st.entities >>
    ELSE LET next == ApplySystem(sys[k], st, km, now, rx, drift)
         IN  << st.entities >> \o StagesFrom(sys, k + 1, next, km, now, rx, drift)

\* variant: the systems run in the reverse of their registration order
updateInReverse(sys, s, id, km, now, rx, drift) ==
    RunSystems([k \in 1..Len(sys) |-> sys[Len(sys) + 1 - k]], 1,
               [entities |-> s, nextId |-> id, thrown |-> FALSE, ran |-> << >>],
               km, now, rx, drift)

update(sys, s, id, km, now, rx, drift) ==
    RunSystems(sys, 1,
               [entities |-> s, nextId |-> id, thrown |-> FALSE, ran |-> << >>],
               km, now, rx, drift)

\* the entities init adds to the emptied world; id is the next identity
initEntities(id) ==
    addEntity(addEntity(<< >>, PlayerShipAssemblage(id)),
              EnemySpawnerAssemblage(id + 1))

\* variant: init runs on the world as it was, nothing is discarded
resetKeepingWorld(s, sys, id) ==
    [ entities |-> addEntity(addEntity(s, PlayerShipAssemblage(id)),
                             EnemySpawnerAssemblage(id + 1)),
      systems |-> sys \o SystemNames,
      nextId |-> id + 2 ]

\* world.reset(init) on a world holding slots s and systems sys: both are
\* replaced by empty arrays before init runs
reset(s, sys, id) ==
    [ entities |-> initEntities(id),
      systems |-> SystemNames,
      nextId |-> id + 2 ]

InitLoop ==
    /\ entities = << >>
    /\ systems = << >>
    /\ keys = NoKeys
    /\ clock = 0
    /\ nextId = 1
    /\ lastRender = 0
    /\ accumulatedTime = InitialAccumulated
    /\ lost = FALSE
    /\ scheduled = TRUE
    /\ pc = "idle"
    /\ thrown = FALSE
    /\ calls = << >>
    /\ prev = << >>
    /\ sinceReset = 0
    /\ frames = 0
    /\ spawnHist = [eligible |-> 0, at |-> -1, hit |-> FALSE]
    /\ shots = [n |-> 0, at |-> -1, last |-> -1, fired |-> FALSE]

\* loop(timestamp) up to the while loop; d is the real time since the
\* previous callback (the first call is loop(0))
FrameEnter(d) ==
    /\ pc = "idle" /\ scheduled /\ ~thrown
    /\ clock' = clock + d
    /\ frames' = frames + 1
    /\ scheduled' = FALSE
    /\ IF lost
       THEN /\ calls' = << "cancelAnimationFrame" >>
            /\ UNCHANGED << entities, systems, nextId, lastRender,
                            accumulatedTime, pc, sinceReset >>
       ELSE /\ lastRender' = clock + d
            /\ pc' = "while"
            /\ IF accumulatedTime + ((clock + d) - lastRender) > ResetAfter
               THEN /\ accumulatedTime' = 0
                    /\ systems' = reset(entities, systems, nextId).systems
                    /\ entities' = reset(entities, systems, nextId).entities
                    /\ nextId' = reset(entities, systems, nextId).nextId
                    /\ sinceReset' = 0
                    /\ calls' = << "world.reset" >>
               ELSE /\ accumulatedTime' =
                          accumulatedTime + ((clock + d) - lastRender)
                    /\ sinceReset' = sinceReset + d
                    /\ calls' = << >>
                    /\ UNCHANGED << entities, systems, nextId >>
    /\ prev' = entities
    /\ UNCHANGED << keys, lost, thrown, spawnHist, shots >>

\* a loop that would go on iterating after the end-game signal
AfterTickNoBreak(isLost) == "while"

\* if (lost) break: where the callback continues after a tick
AfterTick(isLost) == IF isLost THEN "render" ELSE "while"

\* one iteration of the while loop
CatchUpTick ==
    /\ pc = "while"
    /\ accumulatedTime >= TickStep
    /\ \E rx \in EnemyXs, drift \in Drifts :
         LET r == update(systems, entities, nextId, keys, DateNow, rx, drift)
         IN  /\ entities' = r.entities
             /\ nextId' = r.nextId
             /\ thrown' = r.thrown
             /\ IF r.thrown
                THEN /\ calls' = r.ran
                     /\ pc' = "idle"
                     /\ UNCHANGED << lost, accumulatedTime >>
                ELSE /\ calls' = Append(r.ran, "EndGameSystem")
                     /\ lost' = EndGameSystem(r.entities)
                     /\ pc' = AfterTick(EndGameSystem(r.entities))
                     /\ IF EndGameSystem(r.entities)
                        THEN UNCHANGED accumulatedTime
                        ELSE accumulatedTime' = accumulatedTime - TickStep
    /\ prev' = entities
    /\ UNCHANGED << systems, keys, clock, lastRender, scheduled, sinceReset,
                    frames, spawnHist, shots >>

\* from the exit of the while loop to the return
Render ==
    /\ \/ pc = "while" /\ accumulatedTime < TickStep
       \/ pc = "render"
    /\ calls' = IF lost
                THEN << "renderSystem.update", "alert", "requestAnimationFrame" >>
                ELSE << "renderSystem.update", "requestAnimationFrame" >>
    /\ scheduled' = TRUE
    /\ pc' = "idle"
    /\ prev' = entities
    /\ UNCHANGED << entities, systems, keys, clock, nextId, lastRender,
                    accumulatedTime, lost, thrown, sinceReset, frames,
                    spawnHist, shots >>

\* the keydown and keyup listeners
KeyEvent(k, token) ==
    /\ pc = "idle" /\ frames > 0
    /\ keys[k] # token
    /\ keys' = [keys EXCEPT ![k] = token]
    /\ calls' = << token >>
    /\ prev' = entities
    /\ UNCHANGED << entities, systems, clock, nextId, lastRender,
                    accumulatedTime, lost, scheduled, pc, thrown, sinceReset,
                    frames, spawnHist, shots >>

(* Long-horizon loop specification: frames 20 s and 30.001 s apart.        *)
LongDeltas == {20000 * 3, 30001 * 3}

NextLoop ==
    \/ /\ frames < MaxFrames
       /\ \E d \in (IF frames = 0 THEN {0} ELSE LongDeltas) : FrameEnter(d)
    \/ CatchUpTick
    \/ Render

SpecLoop == InitLoop /\ [][NextLoop]_vars

(* Game specification: frames 100 ms apart for MaxGameMs ms, with the fire *)
(* key going down and up between frames.                                   *)
ShortDeltas == {100 * 3}

PlayKeys == {FireKey}

NextGame ==
    \/ \E d \in (IF frames = 0 THEN {0} ELSE ShortDeltas) :
          /\ clock + d <= MaxGameMs * 3
          /\ FrameEnter(d)
    \/ CatchUpTick
    \/ Render
    \/ \E k \in PlayKeys, token \in {"mousedown", "mouseup"} : KeyEvent(k, token)

SpecGame == InitLoop /\ [][NextGame]_vars

---------------------------------------------------------------------------
(* End-game harness: worlds of up to EndGameSlots slots (the empty world   *)
(* included), each slot null, a player ship, an enemy ship or a spawner.   *)
(* EndGameSystem.update is called once on each.                            *)

EndGameKinds == {"null", "player", "enemy", "spawner"}

EndGameEntity(i, kind) ==
    CASE kind = "null" -> Null
      [] kind = "player" -> PlayerShipAssemblage(i)
      [] kind = "enemy" -> EnemyShipAssemblage(i, 0, 0, 0)
      [] kind = "spawner" -> EnemySpawnerAssemblage(i)

InitEndGame ==
    /\ \E n \in 0..EndGameSlots :
       \E f \in [1..n -> EndGameKinds] :
          entities = [i \in 1..n |-> EndGameEntity(i, f[i])]
    /\ prev = << >>
    /\ nextId = EndGameSlots + 1
    /\ LoopAtRest

\* lost = endGameSystem.update(world.entities, mainLoopId)
EndGamePass ==
    /\ calls = << >>
    /\ lost' = EndGameSystem(entities)
    /\ prev' = entities
    /\ calls' = << "EndGameSystem" >>
    /\ UNCHANGED << entities, systems, keys, clock, nextId, lastRender,
                    accumulatedTime, scheduled, pc, thrown, sinceReset,
                    frames, spawnHist, shots >>

NextEndGame == EndGamePass

SpecEndGame == InitEndGame /\ [][NextEndGame]_vars

---------------------------------------------------------------------------
(* Fire harness: the world as init leaves it (player ship, spawner).       *)
(* InteractableSystem is called as the wall clock advances by 99 or 100 ms *)
(* and the fire key goes down and up.  shots records the bullets the calls *)
(* created: how many, when the last two were created, and whether the last *)
(* call created one.                                                       *)

FireWaits == {99, 100}

InitFire ==
    /\ entities = initEntities(1)
    /\ prev = << >>
    /\ nextId = 3
    /\ LoopAtRest

FireUntouched ==
    UNCHANGED << systems, lastRender, accumulatedTime, lost, scheduled, pc,
                 thrown, sinceReset, frames, spawnHist >>

FireCall ==
    /\ LET r == InteractableSystem([entities |-> entities, nextId |-> nextId],
                                   keys, DateNow)
       IN  /\ entities' = r.entities
           /\ nextId' = r.nextId
           /\ shots' = IF r.nextId # nextId
                       THEN [n |-> shots.n + 1, at |-> DateNow,
                             last |-> shots.at, fired |-> TRUE]
                       ELSE [shots EXCEPT !.fired = FALSE]
    /\ prev' = entities
    /\ calls' = << "InteractableSystem" >>
    /\ UNCHANGED << keys, clock >>
    /\ FireUntouched

FireWait ==
    /\ \E ms \in FireWaits :
          /\ (DateNow - EpochMs) + ms <= MaxFireMs
          /\ clock' = clock + 3 * ms
    /\ calls' = << "wait" >>
    /\ UNCHANGED << entities, nextId, keys, prev, shots >>
    /\ FireUntouched

\* the keydown and keyup listeners, for the fire key
FireKeyEvent ==
    /\ \E token \in {"mousedown", "mouseup"} :
          /\ keys[FireKey] # token
          /\ keys' = [keys EXCEPT ![FireKey] = token]
          /\ calls' = << token >>
    /\ UNCHANGED << entities, nextId, clock, prev, shots >>
    /\ FireUntouched

NextFire == FireCall \/ FireWait \/ FireKeyEvent

SpecFire == InitFire /\ [][NextFire]_vars

---------------------------------------------------------------------------
(* Reset harness: world.reset(init) is called once on the worlds of the    *)
(* end-game harness, with no system or the seven systems registered.       *)

InitReset ==
    /\ \E n \in 0..EndGameSlots :
       \E f \in [1..n -> EndGameKinds] :
          entities = [i \in 1..n |-> EndGameEntity(i, f[i])]
    /\ \E sys \in {<< >>, SystemNames} :
          /\ systems = sys
          /\ keys = NoKeys
          /\ clock = 0
          /\ lastRender = 0
          /\ accumulatedTime = InitialAccumulated
          /\ lost = FALSE
          /\ scheduled = FALSE
          /\ pc = "idle"
          /\ thrown = FALSE
          /\ calls = << >>
          /\ sinceReset = 0
          /\ frames = 0
          /\ spawnHist = [eligible |-> 0, at |-> -1, hit |-> FALSE]
          /\ shots = [n |-> 0, at |-> -1, last |-> -1, fired |-> FALSE]
    /\ prev = << >>
    /\ nextId = EndGameSlots + 1

ResetPass ==
    /\ calls = << >>
    /\ systems' = reset(entities, systems, nextId).systems
    /\ entities' = reset(entities, systems, nextId).entities
    /\ nextId' = reset(entities, systems, nextId).nextId
    /\ prev' = entities
    /\ calls' = << "world.reset" >>
    /\ UNCHANGED << keys, clock, lastRender, accumulatedTime, lost, scheduled,
                    pc, thrown, sinceReset, frames, spawnHist, shots >>

NextReset == ResetPass

SpecReset == InitReset /\ [][NextReset]_vars

---------------------------------------------------------------------------
(* Steering specification: the game from page load for MaxSteerMs ms, with *)
(* the fire key and the up key going down and up between frames, so that   *)
(* the ship flies into the bullets it has just fired.                      *)

SteerKeys == {FireKey, "ArrowUp"}

NextSteer ==
    \/ \E d \in (IF frames = 0 THEN {0} ELSE ShortDeltas) :
          /\ clock + d <= MaxSteerMs * 3
          /\ FrameEnter(d)
    \/ CatchUpTick
    \/ Render
    \/ \E k \in SteerKeys, token \in {"mousedown", "mouseup"} : KeyEvent(k, token)

SpecSteer == InitLoop /\ [][NextSteer]_vars

---------------------------------------------------------------------------
(* Vocabulary of the properties.  The geometry and the exemption are       *)
(* stated here on their own terms, not through the systems' definitions.   *)

Max(a, b) == IF a >= b THEN a ELSE b
Min(a, b) == IF a <= b THEN a ELSE b

\* the open rectangles share a point
StrictOverlap(a, b) ==
    /\ Max(a.x, b.x) < Min(a.x + a.w, b.x + b.w)
    /\ Max(a.y, b.y) < Min(a.y + a.h, b.y + b.h)

Listed(a, b) == "Whitelist" \in a.comps /\ b.id \in a.wl

Live(s) == {i \in DOMAIN s : s[i].id # 0}

Full(e) == e.id # 0 /\ {"Position", "Rectangle"} \subseteq e.comps

\* slots a and b hold entities that a collision pass must tombstone together
Clash(s, a, b) ==
    /\ a # b
    /\ Full(s[a]) /\ Full(s[b])
    /\ ~Listed(s[a], s[b]) /\ ~Listed(s[b], s[a])
    /\ StrictOverlap(s[a], s[b])

Victims(s, j) == {i \in DOMAIN s : Clash(s, j, i)}

Subjects(s) == {j \in DOMAIN s : Victims(s, j) # {}}

AfterCollision == calls = << "CollisionSystem" >>

\* three live entities A, B, C in slots a < b < c: A clashes with B and C,
\* B and C do not overlap, nobody is listed
OneAgainstTwo(s, a, b, c) ==
    /\ a < b /\ b < c
    /\ Live(s) = {a, b, c}
    /\ Clash(s, a, b) /\ Clash(s, a, c)
    /\ Full(s[b]) /\ Full(s[c]) /\ ~StrictOverlap(s[b], s[c])
    /\ \A p, q \in {a, b, c} : ~Listed(s[p], s[q])

---------------------------------------------------------------------------
(* C1, as stated: when A (lowest index) overlaps B and C, B and C do not   *)
(* overlap and no pair is exempt, one collision pass tombstones only A and *)
(* B, and C survives.                                                      *)
C1_OnlyFirstPairTombstoned ==
    AfterCollision =>
        \A a, b, c \in DOMAIN prev :
            OneAgainstTwo(prev, a, b, c) =>
                /\ IsNull(entities[a]) /\ IsNull(entities[b])
                /\ entities[c] = prev[c]

(* C1, amended: a tombstoned entity is never again the inner-loop other    *)
(* and never starts a later outer iteration, but the outer iteration in    *)
(* which the subject was tombstoned runs to its end with that subject.     *)
(* With j0 the first slot whose entity clashes with anything: j0 and every *)
(* entity clashing with it are tombstoned (so A, B and C all are), and an  *)
(* entity outside that group all of whose clashes are with members of the  *)
(* group survives unchanged.                                               *)
C1_SubjectScansToTheEnd ==
    (AfterCollision /\ Subjects(prev) # {}) =>
        LET j0 == CHOOSE j \in Subjects(prev) :
                      \A k \in Subjects(prev) : j <= k
            group == Victims(prev, j0) \cup {j0}
        IN  /\ \A i \in group : IsNull(entities[i])
            /\ \A k \in DOMAIN prev \ group :
                   Victims(prev, k) \subseteq group => entities[k] = prev[k]

\* A overlapped B and C, and the pass tombstoned all three
C1_Witness ==
    /\ AfterCollision
    /\ \E a, b, c \in DOMAIN prev :
          /\ OneAgainstTwo(prev, a, b, c)
          /\ IsNull(entities[a]) /\ IsNull(entities[b]) /\ IsNull(entities[c])

(* C6: with exactly two live entities, both carrying Position and          *)
(* Rectangle and neither listed by the other, one collision pass           *)
(* tombstones both slots if and only if the rectangles strictly overlap on *)
(* both axes; otherwise the slots are left as they were.                   *)
C6_TwoEntitiesCollideIffOverlap ==
    AfterCollision =>
        \A a, b \in DOMAIN prev :
            ( /\ a < b /\ Live(prev) = {a, b}
              /\ Full(prev[a]) /\ Full(prev[b])
              /\ ~Listed(prev[a], prev[b]) /\ ~Listed(prev[b], prev[a]) )
            => IF StrictOverlap(prev[a], prev[b])
               THEN entities = [prev EXCEPT ![a] = Null, ![b] = Null]
               ELSE entities = prev

\* two unlisted live entities overlapped and both were tombstoned
C6_Witness ==
    /\ AfterCollision
    /\ \E a, b \in DOMAIN prev :
          /\ a < b /\ Live(prev) = {a, b}
          /\ Clash(prev, a, b)
          /\ Live(entities) = {}

(* C7: if A lists B or B lists A, the overlapping pair (A, B) causes no    *)
(* tombstone in either slot order: A is tombstoned only if it clashes with *)
(* a third entity; when no third entity clashes with either, both survive. *)
C7_ExemptPairSurvives ==
    AfterCollision =>
        \A a, b \in DOMAIN prev :
            ( /\ a # b /\ Full(prev[a]) /\ Full(prev[b])
              /\ StrictOverlap(prev[a], prev[b])
              /\ (Listed(prev[a], prev[b]) \/ Listed(prev[b], prev[a])) )
            => ( IsNull(entities[a]) =>
                   \E c \in DOMAIN prev \ {a, b} : Clash(prev, a, c) )

\* the entity in the higher slot lists the one in the lower slot, they
\* overlap, and both survived the pass
C7_Witness ==
    /\ AfterCollision
    /\ \E a, b \in DOMAIN prev :
          /\ a < b /\ Full(prev[a]) /\ Full(prev[b])
          /\ StrictOverlap(prev[a], prev[b])
          /\ Listed(prev[b], prev[a]) /\ ~Listed(prev[a], prev[b])
          /\ entities[a] = prev[a] /\ entities[b] = prev[b]

---------------------------------------------------------------------------
(* Properties of the boundary harness. *)

AfterMovement == calls = << "MovementSystem" >>
AfterRemoval == calls = << "BoundaryRemovalSystem" >>
AfterBoundaryTwice == calls = << "BoundarySystem", "BoundarySystem" >>

Removable(e) ==
    /\ e.id # 0
    /\ {"Position", "Rectangle", "RemovableAtBoundary", "Boundary"}
          \subseteq e.comps

\* the entity's rectangle lies inside its boundary rectangle (edges may touch)
Contained(e) ==
    /\ e.bx <= e.x /\ e.x + e.w <= e.bx + e.bw
    /\ e.by <= e.y /\ e.y + e.h <= e.by + e.bh

\* the entity's rectangle and its boundary rectangle share a point
MeetsBoundary(e) ==
    /\ Max(e.x, e.bx) < Min(e.x + e.w, e.bx + e.bw)
    /\ Max(e.y, e.by) < Min(e.y + e.h, e.by + e.bh)

\* slots whose entity makes the removal pass throw when it is visited
Throwers(s) ==
    {i \in DOMAIN s :
        /\ s[i].id # 0
        /\ {"Position", "RemovableAtBoundary"} \subseteq s[i].comps
        /\ \/ "Boundary" \notin s[i].comps
           \/ "Rectangle" \notin s[i].comps /\ s[i].y >= s[i].by}

\* the removal pass reaches slot i
Visited(s, i) == \A k \in Throwers(s) : i <= k

(* C3, as stated: an entity carrying Position, Rectangle,                  *)
(* RemovableAtBoundary and Boundary whose rectangle partially overlaps its *)
(* boundary is preserved by a BoundaryRemovalSystem pass.                  *)
C3_PartialOverlapPreserved ==
    AfterRemoval =>
        \A i \in DOMAIN prev :
            ( /\ Removable(prev[i]) /\ Visited(prev, i)
              /\ MeetsBoundary(prev[i]) /\ ~Contained(prev[i]) )
            => entities[i] = prev[i]

(* C3, amended: an entity carrying the four components that the pass       *)
(* visits is preserved exactly when its rectangle lies inside its boundary *)
(* (edges may touch); it is tombstoned as soon as any edge lies outside,   *)
(* whether the rectangle partially overlaps the boundary or is entirely    *)
(* outside it.                                                             *)
C3_RemovedUnlessContained ==
    AfterRemoval =>
        \A i \in DOMAIN prev :
            (Removable(prev[i]) /\ Visited(prev, i)) =>
                entities[i] = IF Contained(prev[i]) THEN prev[i] ELSE Null

\* an entity partially overlapping its boundary was tombstoned
C3_Witness ==
    /\ AfterRemoval
    /\ \E i \in DOMAIN prev :
          /\ Removable(prev[i]) /\ Visited(prev, i)
          /\ MeetsBoundary(prev[i]) /\ ~Contained(prev[i])
          /\ IsNull(entities[i])

(* C4: BoundarySystem applied twice in succession leaves every entity      *)
(* exactly as one application leaves it.                                   *)
C4_BoundaryIdempotent ==
    AfterBoundaryTwice => entities = prev

(* C9: one MovementSystem pass adds the velocity to the position of every  *)
(* live entity carrying Position and Velocity, changing nothing else of    *)
(* it, and leaves every other slot and the slot layout unchanged.          *)
C9_MovementAddsVelocity ==
    AfterMovement =>
        /\ Len(entities) = Len(prev)
        /\ \A i \in DOMAIN prev :
              IF prev[i].id # 0 /\ {"Position", "Velocity"} \subseteq prev[i].comps
              THEN entities[i] = [prev[i] EXCEPT !.x = prev[i].x + prev[i].vx,
                                                 !.y = prev[i].y + prev[i].vy]
              ELSE entities[i] = prev[i]

\* an entity moved diagonally while a tombstone and an entity without
\* Velocity stayed as they were
C9_Witness ==
    /\ AfterMovement
    /\ \E i \in DOMAIN prev :
          /\ prev[i].id # 0 /\ {"Position", "Velocity"} \subseteq prev[i].comps
          /\ prev[i].vx = -1
          /\ entities[i].x = prev[i].x - 1 /\ entities[i].y = prev[i].y + 1
    /\ \E i \in DOMAIN prev :
          /\ "Velocity" \notin prev[i].comps
          /\ entities[i] = prev[i]

---------------------------------------------------------------------------
(* Properties of the spawn harness. *)

AfterSpawnCall == calls = << "SpawnSystem" >>
AfterAddEntity == calls = << "addEntity" >>

Tombstones(s) == {i \in DOMAIN s : s[i].id = 0}

\* slots of `entities` holding an object that no slot of `prev` held
Inserted ==
    {i \in DOMAIN entities :
        /\ entities[i].id # 0
        /\ \A j \in DOMAIN prev : prev[j].id # entities[i].id}

\* slot i holds afterwards what it held before, the timer and the counter
\* of a Spawn component aside
KeptButTimers(i) ==
    entities[i] = [prev[i] EXCEPT !.lastSpawn = entities[i].lastSpawn,
                                  !.count = entities[i].count]

\* the one new object went into the lowest tombstone of prev if there was
\* one, and onto the end otherwise; every other slot is as it was
InsertedBySlotReuse ==
    LET free == Tombstones(prev)
        k == IF free = {} THEN Len(prev) + 1
             ELSE CHOOSE i \in free : \A j \in free : i <= j
    IN  /\ Inserted = {k}
        /\ Len(entities) = IF free = {} THEN Len(prev) + 1 ELSE Len(prev)
        /\ \A i \in DOMAIN prev : i # k => KeptButTimers(i)

(* C8: world.addEntity, and the enemy insertion of SpawnSystem, write the  *)
(* new entity into the lowest-index tombstone if there is one, leaving the *)
(* length and every other slot unchanged, and append it otherwise.         *)
C8_SlotReuseInsertion ==
    /\ AfterAddEntity =>
          /\ InsertedBySlotReuse
          /\ \A i \in DOMAIN prev : i \notin Inserted => entities[i] = prev[i]
    /\ (AfterSpawnCall /\ Inserted # {}) => InsertedBySlotReuse

\* SpawnSystem put an enemy into the lower of two tombstones, in front of
\* a live entity
C8_Witness ==
    /\ AfterSpawnCall
    /\ \E k \in Inserted :
          /\ Cardinality(Tombstones(prev)) >= 2
          /\ k \in Tombstones(prev)
          /\ \E i \in DOMAIN prev : i > k /\ prev[i].id # 0

SpawnerSlot(s) == CHOOSE i \in DOMAIN s : "Spawn" \in s[i].comps

(* C10: from a fresh spawner and a non-decreasing clock, a SpawnSystem     *)
(* call has an effect only if at least 100 ms have passed since the        *)
(* previous eligible call; each eligible call increments the Counter by    *)
(* one, exactly the 10th, 20th, ... eligible calls insert exactly one new  *)
(* enemy, and a call within 100 ms of the previous eligible one changes    *)
(* neither the Counter, lastSpawn nor the slots.  spawnHist counts the     *)
(* eligible calls by the clock alone, and spawnHist.hit tells whether the  *)
(* last call was one.                                                      *)
C10_SpawnCadence ==
    AfterSpawnCall =>
        LET k == SpawnerSlot(prev)
        IN  /\ entities[k].count = spawnHist.eligible
            /\ IF spawnHist.hit
               THEN /\ entities[k].count = prev[k].count + 1
                    /\ entities[k].lastSpawn = DateNow
                    /\ \A i \in DOMAIN prev \ Inserted : KeptButTimers(i)
                    /\ IF spawnHist.eligible % 10 = 0
                       THEN /\ Cardinality(Inserted) = 1
                            /\ \A i \in Inserted :
                                  /\ "Blaster" \in entities[i].comps
                                  /\ "RemovableAtBoundary" \in entities[i].comps
                                  /\ entities[i].y = 0 /\ entities[i].vy = 1
                       ELSE Inserted = {} /\ Len(entities) = Len(prev)
               ELSE entities = prev

\* the 20th eligible call inserted an enemy
C10_Witness ==
    /\ AfterSpawnCall
    /\ spawnHist.eligible = 20
    /\ spawnHist.hit
    /\ Cardinality(Inserted) = 1

\* a call within 100 ms of the previous eligible one changed nothing
C10_WitnessIdle ==
    /\ AfterSpawnCall
    /\ ~spawnHist.hit
    /\ DateNow - spawnHist.at = 50
    /\ entities = prev

(* ---------------------------------------------------------------------- *)
(* The game loop                                                          *)
(* ---------------------------------------------------------------------- *)

\* the calls of a step include a world.update or a world.reset
TicksOrResets(cs) ==
    \E n \in 1..Len(cs) :
       \/ cs[n] = "world.reset"
       \/ cs[n] = "EndGameSystem"
       \/ \E m \in 1..Len(SystemNames) : cs[n] = SystemNames[m]

\* C2: while the game is not over, more than 30000 ms of frame time never
\* pass since the last World reset without the loop resetting the World,
\* however many ticks ran in between
C2_ResetEveryThirtySeconds == ~lost => sinceReset <= ResetAfter

\* C5: once lost is true it stays true, no later step runs a tick or a reset
\* or changes the world, and a later invocation of the frame callback only
\* calls cancelAnimationFrame and returns without scheduling another frame
C5_NothingRunsAfterLost ==
    [][lost =>
         /\ lost'
         /\ ~TicksOrResets(calls')
         /\ entities' = entities /\ systems' = systems
         /\ accumulatedTime' = accumulatedTime
         /\ frames' # frames =>
               /\ calls' = << "cancelAnimationFrame" >>
               /\ ~scheduled'
               /\ pc' = "idle"]_vars

\* the callback invoked after the game was lost has returned
C5_Witness ==
    /\ lost
    /\ calls = << "cancelAnimationFrame" >>
    /\ ~scheduled
    /\ pc = "idle"

---------------------------------------------------------------------------
(* Properties of the end-game harness. *)

AfterEndGame == calls = << "EndGameSystem" >>

\* slots holding a live entity with the UserCharacter marker
UserCharacters(s) ==
    {i \in DOMAIN s : s[i].id # 0 /\ "UserCharacter" \in s[i].comps}

\* C11: EndGameSystem.update reports game-over exactly when no live slot
\* holds an entity carrying UserCharacter (empty and all-tombstone worlds
\* included), and it leaves the slots as they were
C11_GameOverIffNoUserCharacter ==
    AfterEndGame =>
        /\ lost <=> (UserCharacters(prev) = {})
        /\ entities = prev

\* game-over was reported for a non-empty world of tombstones only
C11_Witness ==
    /\ AfterEndGame
    /\ lost
    /\ Len(prev) = EndGameSlots
    /\ \A i \in DOMAIN prev : prev[i].id = 0

---------------------------------------------------------------------------
(* Properties of the fire harness. *)

AfterFireCall == calls = << "InteractableSystem" >>

\* slot of the player ship
PlayerSlot(s) ==
    CHOOSE i \in DOMAIN s : s[i].id # 0 /\ "UserCharacter" \in s[i].comps

\* C12: any two bullets created by the ship's behaviour are created at
\* wall-clock times at least 100 ms apart, and a call made within 100 ms of
\* the last shot adds no entity and leaves Blaster.lastFired as it was
C12_FireCooldown ==
    /\ shots.last # -1 => shots.at - shots.last >= 100
    /\ ( /\ AfterFireCall
         /\ ~shots.fired
         /\ shots.at # -1
         /\ DateNow - shots.at < 100 )
       => /\ Len(entities) = Len(prev)
          /\ \A i \in DOMAIN prev : entities[i].id = prev[i].id
          /\ entities[PlayerSlot(prev)].lastFired
                = prev[PlayerSlot(prev)].lastFired

\* with the key held, the second bullet was fired 100 ms after the first
C12_Witness ==
    /\ AfterFireCall
    /\ keys[FireKey] = "mousedown"
    /\ shots.fired
    /\ shots.n = 2
    /\ shots.at - shots.last = 100
    /\ Len(entities) = Len(prev) + 1

\* a call made with the key held 99 ms after the last shot changed nothing
C12_WitnessBlocked ==
    /\ AfterFireCall
    /\ keys[FireKey] = "mousedown"
    /\ ~shots.fired
    /\ DateNow - shots.at = 99
    /\ entities = prev

---------------------------------------------------------------------------
(* Properties of the ticks of the game. *)

\* the calls of one logical tick followed by the end-game check
TickOrder ==
    << "BoundarySystem", "MovementSystem", "CollisionSystem",
       "BoundaryRemovalSystem", "InteractableSystem", "EntitiesCounterSystem",
       "SpawnSystem", "EndGameSystem" >>

\* the last step ran systems
AfterTickStep == calls # << >> /\ calls[1] \in {TickOrder[n] : n \in 1..8}

\* C13: a tick calls the seven registered systems once each in the order
\* Boundary, Movement, Collision, BoundaryRemoval, Interactable, counter,
\* Spawn, and the end-game check follows it, on the slots the tick left,
\* before anything else runs
C13_TickOrder ==
    AfterTickStep =>
        /\ calls = TickOrder
        /\ ~thrown
        /\ lost <=> (UserCharacters(entities) = {})

\* a tick that fired a bullet ran the systems in order and the game goes on
C13_Witness ==
    /\ calls = TickOrder
    /\ ~lost
    /\ pc = "while"
    /\ Len(entities) > Len(prev)
    /\ \E i \in DOMAIN entities : "RemovableAtBoundary" \in entities[i].comps

---------------------------------------------------------------------------
(* Properties of BoundaryRemovalSystem on entities lacking components. *)

\* the entity lacks a component BoundaryRemovalSystem reads
LacksRemovalComponent(e) ==
    /\ e.id # 0
    /\ ~({"Position", "Rectangle", "RemovableAtBoundary", "Boundary"}
            \subseteq e.comps)

\* C14: a BoundaryRemovalSystem pass raises no error, and it leaves in its
\* slot every entity that lacks Position, Rectangle, RemovableAtBoundary or
\* Boundary
C14_MissingComponentsSkipped ==
    AfterRemoval =>
        /\ ~thrown
        /\ \A i \in DOMAIN prev :
              LacksRemovalComponent(prev[i]) => entities[i] = prev[i]

\* C14, the part that does not depend on an error: an entity that carries
\* Position and RemovableAtBoundary but no Rectangle, above its boundary's
\* top edge, is left in its slot by the pass
C14_NoRectangleAboveKept ==
    AfterRemoval =>
        \A i \in DOMAIN prev :
            ( /\ prev[i].id # 0
              /\ prev[i].comps = MovingComps \ {"Rectangle"}
              /\ prev[i].y < prev[i].by
              /\ Visited(prev, i) )
            => entities[i] = prev[i]

---------------------------------------------------------------------------
(* Properties of world.reset. *)

AfterReset == calls = << "world.reset" >>

\* C15: after world.reset(init) the world holds the player ship in slot 0
\* and the spawner in slot 1, both as their assemblages build them, no
\* tombstone and nothing else, and the seven systems in registration
\* order; no entity from before the reset is in a slot
C15_ResetDiscardsEverything ==
    AfterReset =>
        /\ Len(entities) = 2
        /\ entities[1].id # 0 /\ entities[2].id # 0
        /\ entities[1].id # entities[2].id
        /\ entities[1] = PlayerShipAssemblage(entities[1].id)
        /\ entities[2] = EnemySpawnerAssemblage(entities[2].id)
        /\ systems = SubSeq(TickOrder, 1, 7)
        /\ \A i \in DOMAIN entities, j \in DOMAIN prev :
              entities[i].id # prev[j].id

\* a world of three live entities, one of them a player ship, was reset
C15_Witness ==
    /\ AfterReset
    /\ Len(prev) = EndGameSlots
    /\ \A j \in DOMAIN prev : prev[j].id # 0
    /\ UserCharacters(prev) # {}
    /\ Len(systems) = 7
    /\ Len(entities) = 2

---------------------------------------------------------------------------
(* Slot discipline of the systems inside a tick. *)

\* system `name` took the slots from a to b
Discipline(name, a, b) ==
    /\ Len(b) >= Len(a)
    /\ \A i \in DOMAIN a :
          a[i].id # 0 =>
             /\ \/ b[i].id = a[i].id
                \/ /\ b[i].id = 0
                   /\ name \in {"CollisionSystem", "BoundaryRemovalSystem"}
             /\ \A j \in DOMAIN b : j # i => b[j].id # a[i].id
    /\ Len(b) > Len(a) =>
          /\ Len(b) = Len(a) + 1
          /\ \A i \in DOMAIN a : a[i].id # 0
          /\ name \in {"InteractableSystem", "SpawnSystem"}

\* C16: in every tick, each system leaves the slot sequence at least as
\* long as it found it, leaves every live entity in its slot or (Collision
\* and BoundaryRemoval only) turns its slot into a tombstone, and lengthens
\* the sequence by at most one slot and only when it holds no tombstone
C16_SlotDiscipline ==
    [][(pc = "while" /\ calls' = TickOrder) =>
         \E rx \in EnemyXs, drift \in Drifts :
            LET stages == StagesFrom(systems, 1,
                             [entities |-> entities, nextId |-> nextId,
                              thrown |-> FALSE, ran |-> << >>],
                             keys, DateNow, rx, drift)
            IN  /\ Len(stages) = 8
                /\ stages[1] = entities
                /\ stages[8] = entities'
                /\ \A k \in 1..7 :
                      Discipline(systems[k], stages[k], stages[k + 1])]_vars

\* a tick wrote a new entity into a tombstone while other slots were live
C16_Witness ==
    /\ calls = TickOrder
    /\ \E i \in DOMAIN prev : prev[i].id = 0 /\ entities[i].id # 0
    /\ Len(entities) = Len(prev)

\* a tick turned a live slot into a tombstone
C16_WitnessTombstone ==
    /\ calls = TickOrder
    /\ \E i \in DOMAIN prev : prev[i].id # 0 /\ entities[i].id = 0

\* a tick appended an entity to a sequence without tombstones
C16_WitnessAppend ==
    /\ calls = TickOrder
    /\ Len(entities) = Len(prev) + 1
    /\ \A i \in DOMAIN prev : prev[i].id # 0
    /\ Len(prev) >= 3

---------------------------------------------------------------------------
(* Properties of the bullets of the player ship. *)

\* slots holding a live bullet
Bullets(s) ==
    {i \in DOMAIN s : /\ s[i].id # 0
                      /\ "RemovableAtBoundary" \in s[i].comps
                      /\ "Blaster" \notin s[i].comps}

\* the slots a tick hands to its CollisionSystem pass, given the slots the
\* tick started from
BeforeCollision(s) == MovementSystem(BoundarySystem(s))

\* C17: every bullet in the World lists the player ship that fired it and
\* is listed by that ship; and the CollisionSystem pass of a tick tombstones
\* the ship or a bullet only if it strictly overlapped an entity exempt in
\* neither direction, so never for an overlap of the ship and its bullet
C17_ShipAndBulletsExempt ==
    /\ \A b \in Bullets(entities) :
          /\ "Whitelist" \in entities[b].comps
          /\ \A u \in UserCharacters(entities) :
                /\ entities[u].id \in entities[b].wl
                /\ "Whitelist" \in entities[u].comps
                /\ entities[b].id \in entities[u].wl
                /\ ~Clash(entities, b, u)
    /\ calls = TickOrder =>
          LET moved == BeforeCollision(prev)
              collided == CollisionSystem(moved)
          IN  \A i \in Bullets(moved) \cup UserCharacters(moved) :
                 collided[i].id = 0 =>
                    \E j \in DOMAIN moved : Clash(moved, i, j)

\* a tick whose CollisionSystem pass met the ship overlapping a bullet it
\* had fired left both in their slots
C17_Witness ==
    /\ calls = TickOrder
    /\ \E b \in Bullets(prev), u \in UserCharacters(prev) :
          /\ entities[b].id = prev[b].id
          /\ entities[u].id = prev[u].id
          /\ StrictOverlap(entities[b], entities[u])
          /\ entities[b].y < entities[u].y

---------------------------------------------------------------------------
(* Properties of one BoundarySystem pass. *)

AfterBoundaryOnce == calls = << "BoundarySystem" >>

\* the entity carries what BoundarySystem reads
Clampable(e) ==
    /\ e.id # 0
    /\ {"Position", "Rectangle", "Boundary", "Velocity"} \subseteq e.comps

\* C18: on each axis the low-edge check comes first and sets the position
\* to the literal 0, the high-edge check follows, on the position the first
\* check left, and sets it to boundary edge minus size; the velocity of an
\* axis is 0 after the pass if a check triggered on it, and position and
\* velocity of an axis on which none triggered are unchanged
C18_ClampLiteralZero ==
    AfterBoundaryOnce =>
        \A i \in DOMAIN prev :
            Clampable(prev[i]) =>
               LET e == prev[i]
                   left == e.x < e.bx
                   x1 == IF left THEN 0 ELSE e.x
                   right == x1 + e.w > e.bx + e.bw
                   top == e.y < e.by
                   y1 == IF top THEN 0 ELSE e.y
                   bottom == y1 + e.h > e.by + e.bh
               IN  /\ entities[i].x = IF right THEN e.bx + e.bw - e.w ELSE x1
                   /\ entities[i].y = IF bottom THEN e.by + e.bh - e.h ELSE y1
                   /\ entities[i].vx = IF left \/ right THEN 0 ELSE e.vx
                   /\ entities[i].vy = IF top \/ bottom THEN 0 ELSE e.vy

\* an entity left of a boundary whose left edge is not 0 was moved to 0 and
\* stopped horizontally, while nothing triggered on the vertical axis
C18_Witness ==
    /\ AfterBoundaryOnce
    /\ \E i \in DOMAIN prev :
          /\ Clampable(prev[i])
          /\ prev[i].x < prev[i].bx /\ prev[i].bx > 0
          /\ prev[i].vx # 0
          /\ entities[i].x = 0 /\ entities[i].vx = 0
          /\ entities[i].y = prev[i].y /\ entities[i].vy = prev[i].vy

---------------------------------------------------------------------------
(* Properties of the outcome of a CollisionSystem pass. *)

\* C19: after a CollisionSystem pass no two surviving entities that carry
\* Position and Rectangle, exempt in neither direction, strictly overlap;
\* and every entity the pass tombstoned strictly overlapped an entity,
\* exempt in neither direction and live when the pass started, that the
\* pass tombstoned as well
C19_NoSurvivingOverlap ==
    AfterCollision =>
        /\ \A a, b \in DOMAIN entities : ~Clash(entities, a, b)
        /\ \A i \in DOMAIN prev :
              (prev[i].id # 0 /\ entities[i].id = 0) =>
                 \E j \in DOMAIN prev :
                    /\ Clash(prev, i, j)
                    /\ entities[j].id = 0

\* a pass tombstoned an overlapping pair and left a third entity that
\* overlapped one of the two
C19_Witness ==
    /\ AfterCollision
    /\ \E a, b, c \in DOMAIN prev :
          /\ Clash(prev, a, b) /\ Clash(prev, b, c) /\ ~Clash(prev, a, c)
          /\ a # c
          /\ entities[a].id = 0 /\ entities[b].id = 0
          /\ entities[c].id # 0

---------------------------------------------------------------------------
(* Properties of the first frame. *)

\* C20: the first frame callback resets the World and runs no tick; every
\* tick and every end-game check comes after it, with the seven systems
\* registered and on slots that hold a player ship and the spawner; the
\* empty World is never reported as game-over
C20_NoTickBeforeInit ==
    /\ frames = 0 =>
          /\ entities = << >> /\ systems = << >>
          /\ calls = << >> /\ ~lost
    /\ frames = 1 =>
          /\ ~AfterTickStep
          /\ sinceReset = 0
          /\ accumulatedTime = 0
          /\ ~lost
    /\ frames >= 1 => systems = SubSeq(TickOrder, 1, 7)
    /\ AfterTickStep =>
          /\ frames >= 2
          /\ UserCharacters(prev) # {}
          /\ \E i \in DOMAIN prev : "Spawn" \in prev[i].comps
    /\ lost => entities # << >>

\* the first tick of the game ran in the second frame, on the two entities
\* init had added
C20_Witness ==
    /\ calls = TickOrder
    /\ frames = 2
    /\ Len(prev) = 2
    /\ prev[1] = PlayerShipAssemblage(prev[1].id)
    /\ prev[2] = EnemySpawnerAssemblage(prev[2].id)

============================================================================
